---- MODULE Spec2Model ----
(***************************************************************************)
(* SubTransAI subtitle pipeline: validate_srt, split_srt, translate_chunk, *)
(* reassemble_srt, save_srt_file and TranslationWorkflow.process.          *)
(*                                                                         *)
(* A text is modelled as the sequence of its lines (what str.splitlines()  *)
(* returns); "\n".join is concatenation of line sequences and "\n\n".join  *)
(* puts one empty line between the parts.  A message built by an f-string  *)
(* is the sequence of its fragments, so "x in message" is membership.      *)
(***************************************************************************)
EXTENDS Integers, Sequences, FiniteSets, TLC

\* ------------------------------------------------------------------------
\* Bounds of the model.
MaxRecords == 2      \* blocks per input document
MaxId == 9           \* largest integer a line is parsed to / printed from

\* ------------------------------------------------------------------------
\* Lines.
T1 == "00:00:01,000 --> 00:00:04,000"
T1X == "00:00:01,000 --> 00:00:04,000 trailing"

\* str.strip() of a line.
Strip(l) ==
    CASE l = " - Hi " -> "- Hi"
      [] l = " "      -> ""
      [] OTHER        -> l

\* int(line) succeeds (line already stripped).
IsInt(l) == \E n \in 0..MaxId : ToString(n) = l

\* int(line).
IntOf(l) == CHOOSE n \in 0..MaxId : ToString(n) = l

\* re.match(time_pattern, time_line): anchored at the start of the line only.
MatchesTime(l) == l \in {T1, T1X}

\* "\n\n".join(parts) for parts that are line sequences.
RECURSIVE JoinBlank(_)
JoinBlank(parts) ==
    IF parts = <<>> THEN <<>>
    ELSE IF Len(parts) = 1 THEN parts[1]
    ELSE parts[1] \o <<"">> \o JoinBlank(Tail(parts))

\* ------------------------------------------------------------------------
\* Input documents: up to MaxRecords blocks separated by one empty line.
IdLines == {"1", "5"}
TextBodies == { <<>>, <<"Hello">>, <<"7">>, <<"Hello", "7">>, <<" - Hi ">> }
Blocks == { <<id, T1>> \o body : id \in IdLines, body \in TextBodies }

RECURSIVE DocsOf(_)
DocsOf(n) ==
    IF n = 0 THEN { <<>> }
    ELSE { (IF d = <<>> THEN <<>> ELSE d \o <<"">>) \o b :
             d \in DocsOf(n - 1), b \in Blocks }

Docs == UNION { DocsOf(n) : n \in 0..MaxRecords }

\* Irregular documents (IRREGULAR_SRT): two or more blocks, each with text, with
\* no empty line between them.
RECURSIVE IrregularOf(_)
IrregularOf(n) ==
    IF n = 0 THEN { <<>> }
    ELSE { d \o <<id, T1, text>> :
             d \in IrregularOf(n - 1), id \in IdLines, text \in {"Hello", " - Hi "} }

IrregularDocs == UNION { IrregularOf(n) : n \in 2..MaxRecords }

\* Documents whose text holds glossary terms (TEST_SRT_CHUNK of test_translator.py).
GlossaryDocs ==
    { <<"1", T1, "Hello world hello">>,
      <<"1", T1, "Hello", "", "5", T1, "this is a test", "hello">> }

\* Documents that are empty or hold white space only.
BlankDocs == { <<>>, <<"">>, <<" ">>, <<"", " ", "">> }

\* The documents handed to the functions when they are applied on their own.
\* The timing line of the validator test's INVALID_TIME_SRT.
T1Arrow == "00:00:01,000 -> 00:00:04,000"

\* Documents whose first record's timing line is not of the exact form.
TimingDocs ==
    { <<"1", T1X, "Hello">>, <<"1", T1X>>, <<"1", T1Arrow, "Hello">>, <<"1", T1Arrow>>,
      <<"1", T1Arrow, "", "5", T1, "Hello">>, <<"1", T1, "Hello", "", "5", T1X, "Hello">> }

FnDocs == Docs \cup IrregularDocs \cup GlossaryDocs \cup BlankDocs \cup TimingDocs

\* ------------------------------------------------------------------------
\* srt_validator.py

\* Index of the first line at or after p that is blank (Len+1 if none).
RECURSIVE SkipText(_, _)
SkipText(lines, p) ==
    IF p <= Len(lines) /\ Strip(lines[p]) # "" THEN SkipText(lines, p + 1) ELSE p

\* Index of the first line at or after p that is not blank (Len+1 if none).
RECURSIVE SkipBlank(_, _)
SkipBlank(lines, p) ==
    IF p <= Len(lines) /\ Strip(lines[p]) = "" THEN SkipBlank(lines, p + 1) ELSE p

\* The while loop of validate_srt.  p is Python's i + 1.  acc.errors are the
\* errors appended so far, acc.walked the records whose ID line was accepted
\* (the ID line, the timing line and the text lines the loop read for it).
RECURSIVE ValWalk(_, _, _)
ValWalk(lines, p, acc) ==
    IF p > Len(lines) THEN acc
    ELSE IF Strip(lines[p]) = "" THEN ValWalk(lines, p + 1, acc)
    ELSE IF ~IsInt(Strip(lines[p])) THEN
        ValWalk(lines, SkipText(lines, p),
                [acc EXCEPT !.errors = Append(@, [line |-> p, error |-> "invalid_number"])])
    ELSE IF p + 1 > Len(lines) THEN
        [errors |-> Append(acc.errors, [line |-> p, error |-> "missing_timing"]),
         walked |-> Append(acc.walked, <<lines[p]>>)]
    ELSE
        LET e1 == IF MatchesTime(lines[p + 1]) THEN acc.errors
                  ELSE Append(acc.errors, [line |-> p + 1, error |-> "invalid_timing"])
        IN  IF p + 2 > Len(lines) THEN
                [errors |-> Append(e1, [line |-> p + 1, error |-> "missing_text"]),
                 walked |-> Append(acc.walked, <<lines[p], lines[p + 1]>>)]
            ELSE
                LET q  == SkipText(lines, p + 2)
                    e2 == IF q > p + 2 THEN e1
                          ELSE Append(e1, [line |-> q - 1, error |-> "empty_text"])
                IN  ValWalk(lines, SkipBlank(lines, q),
                            [errors |-> e2,
                             walked |-> Append(acc.walked, SubSeq(lines, p, q - 1))])

\* content.strip() is empty.
IsEmptyContent(lines) == \A p \in 1..Len(lines) : Strip(lines[p]) = ""

\* Mutant of validate_srt: the check for an empty document is missing.
validate_srt_unchecked(lines) ==
    LET w == ValWalk(lines, 1, [errors |-> <<>>, walked |-> <<>>])
    IN  [valid |-> w.errors = <<>>, errors |-> w.errors]

validate_srt(lines) ==
    IF IsEmptyContent(lines)
    THEN [valid |-> FALSE, errors |-> << [line |-> 0, error |-> "empty_file"] >>]
    ELSE LET w == ValWalk(lines, 1, [errors |-> <<>>, walked |-> <<>>])
         IN  [valid |-> w.errors = <<>>, errors |-> w.errors]

\* SRTValidatorAgent.validate: validate_srt raises nothing, the except branch is idle.
SRTValidatorAgent_validate(lines) == validate_srt(lines)

\* The records validate_srt walked in a document it accepts.
WalkedRecords(lines) == ValWalk(lines, 1, [errors |-> <<>>, walked |-> <<>>]).walked

\* ------------------------------------------------------------------------
\* translator.py

SourceLang == "en"
TargetLang == "zh"

\* settings.DEEPSEEK_API_KEY is unset by default (config.py).
DEEPSEEK_API_KEY_set == FALSE

\* The line scan of translate_chunk (and of split_srt's fallback): a line that
\* int() accepts opens a block, other lines join the open block, lines before
\* the first ID line are dropped.  st.cur is current_block, st.cur_id
\* current_subtitle_id (-1 for None).
RECURSIVE TrScan(_, _, _)
TrScan(lines, p, st) ==
    IF p > Len(lines) THEN
        IF st.cur # <<>> /\ st.cur_id # -1
        THEN Append(st.blocks, [id |-> st.cur_id, lines |-> st.cur])
        ELSE st.blocks
    ELSE LET line == Strip(lines[p]) IN
        IF line = "" THEN TrScan(lines, p + 1, st)
        ELSE IF IsInt(line) THEN
            TrScan(lines, p + 1,
                   [blocks |-> IF st.cur # <<>> /\ st.cur_id # -1
                               THEN Append(st.blocks, [id |-> st.cur_id, lines |-> st.cur])
                               ELSE st.blocks,
                    cur |-> <<line>>,
                    cur_id |-> IntOf(line)])
        ELSE TrScan(lines, p + 1,
                    IF st.cur # <<>> THEN [st EXCEPT !.cur = Append(@, line)] ELSE st)

TrParse(lines) == TrScan(lines, 1, [blocks |-> <<>>, cur |-> <<>>, cur_id |-> -1])

\* str.lower() on the letters the model's texts hold.
LowerChar(c) ==
    CASE c = "H" -> "h"
      [] c = "M" -> "m"
      [] c = "O" -> "o"
      [] c = "X" -> "x"
      [] OTHER   -> c

RECURSIVE Lower(_)
Lower(s) == IF s = "" THEN "" ELSE LowerChar(SubSeq(s, 1, 1)) \o Lower(SubSeq(s, 2, Len(s)))

\* t in s, for a non-empty t.
Contains(t, s) == \E i \in 1..(Len(s) - Len(t) + 1) : SubSeq(s, i, i + Len(t) - 1) = t

\* re.compile(re.escape(term), re.IGNORECASE).sub(translation, s): every
\* occurrence from the left, not overlapping, the replacement not rescanned.
RECURSIVE ReSubI(_, _, _)
ReSubI(term, translation, s) ==
    IF Len(s) < Len(term) THEN s
    ELSE IF Lower(SubSeq(s, 1, Len(term))) = Lower(term)
    THEN translation \o ReSubI(term, translation, SubSeq(s, Len(term) + 1, Len(s)))
    ELSE SubSeq(s, 1, 1) \o ReSubI(term, translation, SubSeq(s, 2, Len(s)))

\* A glossary is the sequence of its (term, translation) items; None is empty.
NoGlossary == <<>>
Glossaries ==
    { NoGlossary,
      << [term |-> "Hello", translation |-> "nihao"],
         [term |-> "world", translation |-> "shijie"],
         [term |-> "test", translation |-> "ceshi"] >>,
      << [term |-> "he", translation |-> "X"],
         [term |-> "Hello", translation |-> "nihao"] >> }

\* term.lower() in text.lower(), the text being the block's text lines.
InText(term, text) == \E p \in 1..Len(text) : Contains(Lower(term), Lower(text[p]))

\* The glossary loop of the placeholder providers: an item whose term is in the
\* source text is substituted in the translated text as it stands by then.
RECURSIVE ApplyGlossary(_, _, _)
ApplyGlossary(glossary, text, translated) ==
    IF glossary = <<>> THEN translated
    ELSE LET g == Head(glossary)
         IN  ApplyGlossary(Tail(glossary), text,
                 IF InText(g.term, text)
                 THEN [p \in 1..Len(translated) |-> ReSubI(g.term, g.translation, translated[p])]
                 ELSE translated)

\* The glossary loop of translate_chunk: one match per item whose term is in the text.
RECURSIVE GlossaryMatches(_, _, _)
GlossaryMatches(glossary, subtitle_id, text) ==
    IF glossary = <<>> THEN <<>>
    ELSE LET g == Head(glossary)
         IN  (IF InText(g.term, text)
              THEN << [subtitle_id |-> subtitle_id, term |-> g.term,
                       translation |-> g.translation] >>
              ELSE <<>>) \o GlossaryMatches(Tail(glossary), subtitle_id, text)

\* The placeholder providers: the text with a tag in front of it, then the glossary.
translate_with_deepseek(text, glossary) ==
    ApplyGlossary(glossary, text,
        <<("[" \o SourceLang \o " -> " \o TargetLang \o "] ") \o text[1]>> \o Tail(text))

translate_with_mistral(text, glossary) ==
    ApplyGlossary(glossary, text,
        <<("[Mistral: " \o SourceLang \o " -> " \o TargetLang \o "] ") \o text[1]>> \o Tail(text))

\* The engine branch of translate_chunk.  provider says how the external
\* translation capability behaves in this call: "stub" is the repository's
\* placeholder, "identity" returns the text unchanged, "raise" fails.
Provider(provider, engine, text, glossary) ==
    IF provider = "identity" THEN text
    ELSE IF engine = "deepseek" /\ DEEPSEEK_API_KEY_set THEN translate_with_deepseek(text, glossary)
    ELSE IF engine = "mistral" THEN translate_with_mistral(text, glossary)
    ELSE translate_with_deepseek(text, glossary)

\* The engine keys passed to translate_chunk.
Engines == {"deepseek", "mistral", "nonexistent_engine"}

\* The else branch of the engine choice is taken: logger.warning, then DeepSeek.
UsesFallback(engine) == ~(engine = "deepseek" /\ DEEPSEEK_API_KEY_set) /\ engine # "mistral"

\* Whether the provider raises at its next call, after calls calls: "raise"
\* raises at every call, "raise_later" at every call but the first.
ProviderRaises(provider, calls) ==
    provider = "raise" \/ (provider = "raise_later" /\ calls >= 1)

\* The translation loop of translate_chunk over the parsed blocks.
RECURSIVE TrBlocks(_, _, _, _, _)
TrBlocks(blocks, glossary, provider, engine, acc) ==
    IF blocks = <<>> THEN acc
    ELSE LET block == Head(blocks)
             text  == SubSeq(block.lines, 3, Len(block.lines))
         IN
        IF Len(block.lines) < 3 THEN
            TrBlocks(Tail(blocks), glossary, provider, engine,
                     [acc EXCEPT !.contents = Append(@, block.lines)])
        ELSE IF ProviderRaises(provider, acc.calls) THEN
            [acc EXCEPT !.raised = TRUE, !.calls = @ + 1,
                        !.warned = @ \/ UsesFallback(engine)]
        ELSE
            TrBlocks(Tail(blocks), glossary, provider, engine,
                     [acc EXCEPT !.calls = @ + 1,
                                 !.warned = @ \/ UsesFallback(engine),
                                 !.matches = @ \o GlossaryMatches(glossary, block.lines[1], text),
                                 !.contents = Append(@,
                                     <<block.lines[1], block.lines[2]>>
                                     \o Provider(provider, engine, text, glossary))])

\* result["engine"]: the key the caller passed.
ReportedEngine(engine) == engine

\* translate_chunk: raised, or translated_content, engine and glossary_matches.
\* calls counts the provider invocations made, warned says whether
\* logger.warning was called, blocks are the translated_blocks.
translate_chunk_glossary(content, glossary, provider, engine) ==
    LET t == TrBlocks(TrParse(content), glossary, provider, engine,
                      [raised |-> FALSE, calls |-> 0, contents |-> <<>>, warned |-> FALSE,
                       matches |-> <<>>])
    IN  [raised |-> t.raised,
         calls |-> t.calls,
         warned |-> t.warned,
         glossary_matches |-> IF t.raised THEN <<>> ELSE t.matches,
         blocks |-> IF t.raised THEN <<>> ELSE t.contents,
         translated_content |-> IF t.raised THEN <<>> ELSE JoinBlank(t.contents),
         engine |-> ReportedEngine(engine)]

\* translate_chunk with glossary=None.
translate_chunk(content, provider, engine) ==
    translate_chunk_glossary(content, NoGlossary, provider, engine)

\* Mutant of TranslatorAgent_translate: the blocks translated before the
\* provider raised are returned with the error.
TranslatorAgent_translate_partial(content, provider, engine) ==
    LET t == TrBlocks(TrParse(content), NoGlossary, provider, engine,
                      [raised |-> FALSE, calls |-> 0, contents |-> <<>>, warned |-> FALSE,
                       matches |-> <<>>])
    IN  [translated_content |-> JoinBlank(t.contents), engine |-> engine, calls |-> t.calls,
         error |-> IF t.raised THEN <<"translation error: ", "provider failure">> ELSE <<>>]

\* TranslatorAgent.translate: an exception of translate_chunk becomes an error result.
TranslatorAgent_translate(content, provider, engine) ==
    LET r == translate_chunk(content, provider, engine)
    IN  IF r.raised
        THEN [translated_content |-> <<>>, engine |-> engine, calls |-> r.calls,
              error |-> <<"translation error: ", "provider failure">>]
        ELSE [translated_content |-> r.translated_content, engine |-> r.engine,
              calls |-> r.calls, error |-> <<>>]

\* ------------------------------------------------------------------------
\* srt_reassembler.py

\* Mutant of SortById: the chunks are taken in the order they were passed.
SortByArrival(s) == s

\* sorted(chunks, key=id): stable.
RECURSIVE SortById(_)
SortById(s) ==
    IF s = <<>> THEN <<>>
    ELSE LET rest == SortById(SubSeq(s, 1, Len(s) - 1))
             c    == s[Len(s)]
             k    == Cardinality({ j \in 1..Len(rest) : rest[j].id <= c.id })
         IN  SubSeq(rest, 1, k) \o <<c>> \o SubSeq(rest, k + 1, Len(rest))

\* The line scan of reassemble_srt: as the translator's, but a line that is not
\* an ID line is appended to current_block even when no block is open.
RECURSIVE RsScan(_, _, _)
RsScan(lines, p, st) ==
    IF p > Len(lines) THEN
        IF st.cur # <<>> THEN Append(st.blocks, st.cur) ELSE st.blocks
    ELSE LET line == Strip(lines[p]) IN
        IF line = "" THEN RsScan(lines, p + 1, st)
        ELSE IF IsInt(line) THEN
            RsScan(lines, p + 1,
                   [blocks |-> IF st.cur # <<>> THEN Append(st.blocks, st.cur) ELSE st.blocks,
                    cur |-> <<line>>])
        ELSE RsScan(lines, p + 1, [st EXCEPT !.cur = Append(@, line)])

RsParse(lines) == RsScan(lines, 1, [blocks |-> <<>>, cur |-> <<>>])

\* all_subtitles: the blocks of the chunks in sorted order.
RECURSIVE AllSubtitles(_)
AllSubtitles(sorted_chunks) ==
    IF sorted_chunks = <<>> THEN <<>>
    ELSE RsParse(Head(sorted_chunks).translated_content) \o AllSubtitles(Tail(sorted_chunks))

\* subtitle[0] = str(i + 1) for every block.
NormalizeIds(subs) ==
    [i \in 1..Len(subs) |-> <<ToString(i)>> \o Tail(subs[i])]

reassemble_srt(chunks, normalize_ids) ==
    LET all  == AllSubtitles(SortById(chunks))
        subs == IF normalize_ids THEN NormalizeIds(all) ELSE all
    IN  [content |-> JoinBlank(subs), subtitle_count |-> Len(all)]

\* SRTReassemblerAgent.reassemble: reassemble_srt raises nothing on these inputs.
SRTReassemblerAgent_reassemble(chunks) ==
    LET r == reassemble_srt(chunks, TRUE)
    IN  [content |-> r.content, subtitle_count |-> r.subtitle_count, error |-> <<>>]

\* ------------------------------------------------------------------------
\* srt_splitter.py

\* re.finditer(pattern, content): the pattern's character class [\d:,\s->]
\* holds the range \s-> , which re refuses to compile ("bad character range
\* \s->"), so the call raises re.error for every content.
re_finditer(content) == [raised |-> TRUE, matches |-> <<>>]

\* The fallback line scan of split_srt (the translator's scan; a block's
\* content is its stripped lines joined by "\n").
FallbackBlocks(content) ==
    LET bs == TrParse(content)
    IN  [i \in 1..Len(bs) |-> [id |-> bs[i].id, content |-> bs[i].lines]]

\* The grouping loop of split_srt: range(0, total_blocks, chunk_size).
MakeChunks(subtitle_blocks, chunk_size) ==
    LET total == Len(subtitle_blocks)
        n     == (total + chunk_size - 1) \div chunk_size
    IN  [c \in 1..n |->
            LET first == (c - 1) * chunk_size + 1
                last  == IF c * chunk_size < total THEN c * chunk_size ELSE total
            IN  [id |-> c,
                 content |-> JoinBlank([j \in 1..(last - first + 1) |->
                                          subtitle_blocks[first + j - 1].content]),
                 subtitle_range |-> [start |-> subtitle_blocks[first].id,
                                     end |-> subtitle_blocks[last].id]]]

split_srt(content, chunk_size) ==
    LET m == re_finditer(content)
    IN  IF m.raised
        THEN [raised |-> TRUE, chunks |-> <<>>, total_subtitles |-> 0]
        ELSE LET subtitle_blocks == IF m.matches = <<>> THEN FallbackBlocks(content)
                                    ELSE m.matches
             IN  [raised |-> FALSE,
                  chunks |-> MakeChunks(subtitle_blocks, chunk_size),
                  total_subtitles |-> Len(subtitle_blocks)]

\* SRTSplitterAgent.split: an exception of split_srt becomes an error result.
SRTSplitterAgent_split(content, chunk_size) ==
    LET r == split_srt(content, chunk_size)
    IN  IF r.raised
        THEN [chunks |-> <<>>, total_subtitles |-> 0,
              error |-> <<"split error: ", "bad character range">>]
        ELSE [chunks |-> r.chunks, total_subtitles |-> r.total_subtitles, error |-> <<>>]

\* ------------------------------------------------------------------------
\* save_srt_file and generate_download_url

NoFile == [exists |-> FALSE, data |-> <<>>, complete |-> FALSE]
IoOutcomes == {"ok", "open_fails", "write_fails", "rename_fails"}

\* A file {task_id}.srt left by an earlier save under the same task id.
OldFile == [exists |-> TRUE, data |-> <<"1", T1, "Old">>, complete |-> TRUE]

\* Mutant of OpenTmp: the content is written straight to the final path.
OpenFinal(fs) == [fs EXCEPT !.final = [exists |-> TRUE, data |-> <<>>, complete |-> FALSE]]

\* aiofiles.open(tmp_path, "w"): the temporary file exists and is empty.
OpenTmp(fs) == [fs EXCEPT !.tmp = [exists |-> TRUE, data |-> <<>>, complete |-> FALSE]]

\* f.write(content) and the close of the file, of which the first n lines reached
\* the temporary file; the file is complete when all of them did.
WriteTmp(fs, content, n) ==
    [fs EXCEPT !.tmp = [exists |-> TRUE, data |-> SubSeq(content, 1, n),
                        complete |-> n = Len(content)]]

\* os.rename(tmp_path, file_path)
RenameTmp(fs) == [tmp |-> NoFile, final |-> fs.tmp]

\* Mutant of RemoveTmp: the except branch leaves the temporary file.
RemoveNothing(fs) == fs

\* The except branch: if os.path.exists(tmp_path): os.remove(tmp_path)
RemoveTmp(fs) == IF fs.tmp.exists THEN [fs EXCEPT !.tmp = NoFile] ELSE fs

\* save_srt_file(content, task_id) as one call: the files it leaves and whether
\* it raised.  fs.tmp is {task_id}.srt.tmp, fs.final is {task_id}.srt.  io is
\* what the file system does to this call.
save_srt_file(content, io, fs) ==
    LET opened  == OpenTmp(fs)
        written == WriteTmp(opened, content, Len(content))
    IN  IF io = "ok"
        THEN [raised |-> FALSE, fs |-> RenameTmp(written),
              file_path |-> "results/task.srt", file_size |-> Len(content)]
        ELSE [raised |-> TRUE,
              fs |-> RemoveTmp(CASE io = "open_fails"   -> fs
                                 [] io = "write_fails"  -> opened
                                 [] io = "rename_fails" -> written),
              file_path |-> "", file_size |-> 0]

\* SRTReassemblerAgent.save_file: an exception of save_srt_file becomes an error result.
SRTReassemblerAgent_save_file(content, io, fs) ==
    LET r == save_srt_file(content, io, fs)
    IN  [fs |-> r.fs, file_path |-> r.file_path, file_size |-> r.file_size,
         error |-> IF r.raised THEN <<"save error: ", io>> ELSE <<>>]

\* generate_download_url / NotificationAgent.generate_url.
generate_download_url(fs) ==
    IF ~fs.final.exists
    THEN [download_url |-> "", error |-> <<"file does not exist">>]
    ELSE [download_url |-> "https://cdn.example.com/files/task.srt", error |-> <<>>]

\* ------------------------------------------------------------------------
\* workflow.py: TranslationWorkflow.process as a state machine.

MaxChunkSize == 2    \* chunk sizes 1..MaxChunkSize are passed to process

VARIABLES
    content,            \* the document handed to process
    chunk_size,         \* the chunk size handed to process
    harness,            \* which agents are the shipped ones (see Harnesses)
    pc,                 \* position of process
    chunks,             \* splitting_result["chunks"]
    translation_results,\* result of each translate task, Pending until it ran
    translated_chunks,  \* the list process builds for the reassembler
    reassembly_result,
    save_result,
    url_result,
    files,              \* the temporary and the final artifact file
    notifications,      \* every send_notification call, in order
    result,             \* what process returned
    trace,              \* the stages process entered, in order
    provider_calls,     \* provider invocations made so far
    fn_in, fn_k, fn_op, fn_out,  \* the function harness (SpecFn)
    job,                \* the stored TranslationJob (SpecJob)
    runner,             \* which background function processes the job
    job_pc,             \* position of the background function
    cancel_pc           \* position of a cancel_translation_job request

wf_vars == <<content, chunk_size, harness, pc, chunks, translation_results,
             translated_chunks, reassembly_result, save_result, url_result, files,
             notifications, result, trace, provider_calls>>
fn_vars == <<fn_in, fn_k, fn_op, fn_out>>
job_vars == <<job, runner, job_pc, cancel_pc>>
vars == <<wf_vars, fn_vars, job_vars>>

\* The stored TranslationJob that create_translation_job made: status PENDING.
NewJob == [status |-> "pending", download_url |-> "", error_message |-> <<>>]

\* No background task and no cancel request: the job variables stay as they are.
JobIdle == job = NewJob /\ runner = "none" /\ job_pc = "idle" /\ cancel_pc = "idle"

\* "real": every agent is the shipped one.  "patch_split": SRTSplitterAgent.split
\* is patched to return chunks, as tests/agents/test_workflow.py does.
\* "patch_split_translate": TranslatorAgent.translate is patched to raise as well
\* (test_workflow_translation_error).
Harnesses == {"real", "patch_split", "patch_split_translate"}

AGNO_DEFAULT_ENGINE == "mistral"

Pending == [translated_content |-> <<>>, engine |-> "", calls |-> 0, error |-> <<"pending">>]
NoResult == [status |-> "none", error |-> <<>>, details |-> [kind |-> "none"],
             subtitle_count |-> 0, download_url |-> "", file_size |-> 0]
NoReassembly == [content |-> <<>>, subtitle_count |-> 0, error |-> <<>>]
NoSave == [file_path |-> "", file_size |-> 0, error |-> <<>>]
NoUrl == [download_url |-> "", error |-> <<>>]

\* The chunk lists a patched split returns: the document cut at some of its
\* empty lines (the whole document as one chunk included), ids 1, 2, ...
RECURSIVE Cuts(_)
Cuts(lines) ==
    { <<lines>> } \cup
    UNION { { <<SubSeq(lines, 1, p - 1)>> \o rest :
                rest \in Cuts(SubSeq(lines, p + 1, Len(lines))) } :
            p \in { q \in 1..Len(lines) : lines[q] = "" } }

MockSplitReplies(lines) ==
    { [chunks |-> [i \in 1..Len(pieces) |-> [id |-> i, content |-> pieces[i]]],
       total_subtitles |-> Len(pieces), error |-> <<>>] : pieces \in Cuts(lines) }

\* Mutant of Fail: the failed result is returned without the notification.
FailNoNotify(notified, error, details) ==
    /\ notifications' = notifications
    /\ result' = [NoResult EXCEPT !.status = "failed", !.error = error, !.details = details]
    /\ pc' = "done"

\* send_notification(status="failed", ...) followed by the return of a failed result.
Fail(notified, error, details) ==
    /\ notifications' = Append(notifications, [status |-> "failed", error_message |-> notified])
    /\ result' = [NoResult EXCEPT !.status = "failed", !.error = error, !.details = details]
    /\ pc' = "done"

WfInit ==
    /\ content \in Docs
    /\ chunk_size \in 1..MaxChunkSize
    /\ harness \in Harnesses
    /\ pc = "validate"
    /\ chunks = <<>>
    /\ translation_results = <<>>
    /\ translated_chunks = <<>>
    /\ reassembly_result = NoReassembly
    /\ save_result = NoSave
    /\ url_result = NoUrl
    /\ files = [tmp |-> NoFile, final |-> NoFile]
    /\ notifications = <<>>
    /\ result = NoResult
    /\ trace = <<>>
    /\ provider_calls = 0

\* Mutant of Validate: the invalid branch notifies but does not return.
ValidateNoReturn ==
    /\ pc = "validate"
    /\ trace' = Append(trace, "validate")
    /\ LET v == SRTValidatorAgent_validate(content)
       IN  /\ notifications' = IF v.valid THEN notifications
                               ELSE Append(notifications,
                                           [status |-> "failed",
                                            error_message |-> <<"SRT validation failed">>])
           /\ pc' = "split"
           /\ UNCHANGED result
    /\ UNCHANGED <<content, chunk_size, harness, chunks, translation_results,
                   translated_chunks, reassembly_result, files, provider_calls,
                   save_result, url_result, fn_vars, job_vars>>

\* 1. validator.validate
Validate ==
    /\ pc = "validate"
    /\ trace' = Append(trace, "validate")
    /\ LET v == SRTValidatorAgent_validate(content)
       IN  IF ~v.valid
           THEN Fail(<<"SRT validation failed">>, <<"SRT validation failed">>,
                     [kind |-> "validation", validation |-> v])
           ELSE pc' = "split" /\ UNCHANGED <<notifications, result>>
    /\ UNCHANGED <<content, chunk_size, harness, chunks, translation_results,
                   translated_chunks, reassembly_result, files, provider_calls, save_result, url_result, fn_vars, job_vars>>

\* 2. splitter.split
Split ==
    /\ pc = "split"
    /\ trace' = Append(trace, "split")
    /\ \E r \in (IF harness = "real" THEN {SRTSplitterAgent_split(content, chunk_size)}
                 ELSE MockSplitReplies(content)) :
          IF r.error # <<>>
          THEN /\ Fail(<<"SRT split failed">>, <<"SRT split failed">>,
                       [kind |-> "splitting", splitting |-> r])
               /\ UNCHANGED chunks
          ELSE /\ chunks' = r.chunks
               /\ pc' = "translate"
               /\ UNCHANGED <<notifications, result>>
    /\ UNCHANGED <<content, chunk_size, harness, translation_results,
                   translated_chunks, reassembly_result, files, provider_calls, save_result, url_result, fn_vars, job_vars>>

\* 3. the "processing" notification and one translate task per chunk
StartTranslate ==
    /\ pc = "translate"
    /\ trace' = Append(trace, "translate")
    /\ notifications' = Append(notifications, [status |-> "processing", error_message |-> <<>>])
    /\ translation_results' = [i \in 1..Len(chunks) |-> Pending]
    /\ pc' = "translating"
    /\ UNCHANGED <<content, chunk_size, harness, chunks, translated_chunks,
                   reassembly_result, files, result, provider_calls, save_result, url_result, fn_vars, job_vars>>

\* One translate task runs to its end; the provider answers or raises.
TranslateChunk(i) ==
    /\ pc = "translating"
    /\ harness # "patch_split_translate"
    /\ translation_results[i] = Pending
    /\ \E provider \in {"stub", "raise", "raise_later"} :
          LET r == TranslatorAgent_translate(chunks[i].content, provider, AGNO_DEFAULT_ENGINE)
          IN  /\ translation_results' = [translation_results EXCEPT ![i] = r]
              /\ provider_calls' = provider_calls + r.calls
    /\ UNCHANGED <<content, chunk_size, harness, pc, chunks, translated_chunks,
                   reassembly_result, files, notifications, result, trace, save_result, url_result, fn_vars, job_vars>>

\* A patched translate raises: gather raises into the except branch of process.
TranslateRaises ==
    /\ pc = "translating"
    /\ harness = "patch_split_translate"
    /\ Len(chunks) > 0
    /\ Fail(<<"service unavailable">>, <<"processing error: ", "service unavailable">>,
            [kind |-> "none"])
    /\ UNCHANGED <<content, chunk_size, harness, chunks, translation_results,
                   translated_chunks, reassembly_result, files, trace, provider_calls, save_result, url_result, fn_vars, job_vars>>

\* Mutant of Succeeded: the results after the first failed one are discarded.
RECURSIVE SucceededUntilFailure(_, _, _)
SucceededUntilFailure(cs, rs, i) ==
    IF i > Len(rs) \/ rs[i].error # <<>> THEN <<>>
    ELSE << [id |-> cs[i].id, translated_content |-> rs[i].translated_content] >>
         \o SucceededUntilFailure(cs, rs, i + 1)

\* The successful results, in chunk order, under the chunks' ids.
RECURSIVE Succeeded(_, _, _)
Succeeded(cs, rs, i) ==
    IF i > Len(rs) THEN <<>>
    ELSE (IF rs[i].error # <<>> THEN <<>>
          ELSE << [id |-> cs[i].id, translated_content |-> rs[i].translated_content] >>)
         \o Succeeded(cs, rs, i + 1)

\* Mutant of Gather: the "no chunk translated" check is missing.
GatherNoCheck ==
    /\ pc = "translating"
    /\ \A i \in 1..Len(translation_results) : translation_results[i] # Pending
    /\ translated_chunks' = Succeeded(chunks, translation_results, 1)
    /\ pc' = "reassemble"
    /\ UNCHANGED <<content, chunk_size, harness, chunks, translation_results,
                   reassembly_result, files, trace, provider_calls, notifications, result,
                   save_result, url_result, fn_vars, job_vars>>

\* gather returned: drop the failed chunks, fail if none is left.
Gather ==
    /\ pc = "translating"
    /\ \A i \in 1..Len(translation_results) : translation_results[i] # Pending
    /\ LET ok == Succeeded(chunks, translation_results, 1)
       IN  /\ translated_chunks' = ok
           /\ IF ok = <<>>
              THEN Fail(<<"all chunks failed">>, <<"all chunks failed">>,
                        [kind |-> "translation", translation |-> translation_results])
              ELSE pc' = "reassemble" /\ UNCHANGED <<notifications, result>>
    /\ UNCHANGED <<content, chunk_size, harness, chunks, translation_results,
                   reassembly_result, files, trace, provider_calls, save_result, url_result, fn_vars, job_vars>>

\* 4. reassembler.reassemble
Reassemble ==
    /\ pc = "reassemble"
    /\ trace' = Append(trace, "reassemble")
    /\ LET r == SRTReassemblerAgent_reassemble(translated_chunks)
       IN  /\ reassembly_result' = r
           /\ IF r.error # <<>>
              THEN Fail(<<"SRT reassembly failed">>, <<"SRT reassembly failed">>,
                        [kind |-> "reassembly", reassembly |-> r])
              ELSE pc' = "save" /\ UNCHANGED <<notifications, result>>
    /\ UNCHANGED <<content, chunk_size, harness, chunks, translation_results,
                   translated_chunks, files, provider_calls, save_result, url_result, fn_vars, job_vars>>

\* 5. reassembler.save_file
Save ==
    /\ pc = "save"
    /\ trace' = Append(trace, "save")
    /\ \E io \in IoOutcomes :
          LET r == SRTReassemblerAgent_save_file(reassembly_result.content, io, files)
          IN  /\ files' = r.fs
              /\ save_result' = [file_path |-> r.file_path, file_size |-> r.file_size,
                                  error |-> r.error]
              /\ IF r.error # <<>>
                 THEN Fail(<<"SRT save failed">>, <<"SRT save failed">>,
                           [kind |-> "save", save |-> r.error])
                 ELSE pc' = "url" /\ UNCHANGED <<notifications, result>>
    /\ UNCHANGED <<content, chunk_size, harness, chunks, translation_results,
                   translated_chunks, reassembly_result, provider_calls, url_result, fn_vars, job_vars>>

\* The saved file is removed by someone else before the URL is generated.
ResultFileRemoved ==
    /\ pc = "url"
    /\ files.final.exists
    /\ files' = [files EXCEPT !.final = NoFile]
    /\ UNCHANGED <<content, chunk_size, harness, pc, chunks, translation_results,
                   translated_chunks, reassembly_result, notifications, result, trace,
                   provider_calls, save_result, url_result, fn_vars, job_vars>>

\* 6. notification.generate_url
GenerateUrl ==
    /\ pc = "url"
    /\ trace' = Append(trace, "url")
    /\ LET u == generate_download_url(files)
       IN  /\ url_result' = u
           /\ IF u.error # <<>>
              THEN Fail(<<"download URL failed">>, <<"download URL failed">>,
                        [kind |-> "url", url |-> u])
              ELSE pc' = "complete" /\ UNCHANGED <<notifications, result>>
    /\ UNCHANGED <<content, chunk_size, harness, chunks, translation_results,
                   translated_chunks, reassembly_result, files, provider_calls, save_result, fn_vars, job_vars>>

\* 7., 8. the "completed" notification and the returned result
Complete ==
    /\ pc = "complete"
    /\ trace' = Append(trace, "complete")
    /\ notifications' = Append(notifications, [status |-> "completed", error_message |-> <<>>])
    /\ result' = [NoResult EXCEPT !.status = "completed",
                                  !.download_url = url_result.download_url,
                                  !.subtitle_count = reassembly_result.subtitle_count,
                                  !.file_size = save_result.file_size]
    /\ pc' = "done"
    /\ UNCHANGED <<content, chunk_size, harness, chunks, translation_results,
                   translated_chunks, reassembly_result, files, provider_calls, save_result, url_result, fn_vars, job_vars>>

FnIdle == fn_in = <<>> /\ fn_k = 1 /\ fn_op = "none" /\ fn_out = [op |-> "none"]

Init == WfInit /\ FnIdle /\ JobIdle

Next ==
    \/ Validate
    \/ Split
    \/ StartTranslate
    \/ \E i \in 1..Len(translation_results) : TranslateChunk(i)
    \/ TranslateRaises
    \/ Gather
    \/ Reassemble
    \/ Save
    \/ ResultFileRemoved
    \/ GenerateUrl
    \/ Complete

Spec == Init /\ [][Next]_vars

\* ------------------------------------------------------------------------
\* Cancellation of a run (SpecCancel).

\* The task that runs process is cancelled (Task.cancel()) before its first step
\* or while it waits in asyncio.gather: CancelledError is raised at the await.
\* It is a BaseException, so "except Exception" does not catch it: process
\* neither notifies nor returns, and the pending translate tasks never run.
CancelTask ==
    /\ pc \in {"validate", "translating"}
    /\ pc' = "cancelled"
    /\ trace' = Append(trace, "cancel")
    /\ UNCHANGED <<content, chunk_size, harness, chunks, translation_results,
                   translated_chunks, reassembly_result, files, notifications, result,
                   provider_calls, save_result, url_result, fn_vars, job_vars>>

\* The cancel endpoint stores the job as FAILED ("Cancelled by user") while the
\* run has not started or waits in asyncio.gather; process reads nothing of it.
CancelJob ==
    /\ pc \in {"validate", "translating"}
    /\ "cancel_requested" \notin { trace[i] : i \in 1..Len(trace) }
    /\ trace' = Append(trace, "cancel_requested")
    /\ UNCHANGED <<content, chunk_size, harness, pc, chunks, translation_results,
                   translated_chunks, reassembly_result, files, notifications, result,
                   provider_calls, save_result, url_result, fn_vars, job_vars>>

CancelNext == Next \/ CancelTask \/ CancelJob

SpecCancel == Init /\ [][CancelNext]_vars

\* ------------------------------------------------------------------------
\* The functions applied on their own to a document (SpecFn).

FnOut0 == [op |-> "none", raised |-> FALSE, valid |-> FALSE, errors |-> <<>>,
           chunks |-> <<>>, total_subtitles |-> 0, content |-> <<>>,
           subtitle_count |-> 0, calls |-> 0, normalize_ids |-> FALSE,
           fs |-> [tmp |-> NoFile, final |-> NoFile], prev |-> NoFile,
           engine_arg |-> "", engine |-> "", warned |-> FALSE,
           glossary |-> <<>>, glossary_matches |-> <<>>, blocks |-> <<>>,
           walked |-> 0, parsed |-> 0]

WfIdle ==
    /\ content = <<>>
    /\ chunk_size = 1
    /\ harness = "real"
    /\ pc = "idle"
    /\ chunks = <<>>
    /\ translation_results = <<>>
    /\ translated_chunks = <<>>
    /\ reassembly_result = NoReassembly
    /\ save_result = NoSave
    /\ url_result = NoUrl
    /\ files = [tmp |-> NoFile, final |-> NoFile]
    /\ notifications = <<>>
    /\ result = NoResult
    /\ trace = <<>>
    /\ provider_calls = 0

FnInit ==
    /\ WfIdle
    /\ fn_in \in FnDocs
    /\ fn_k \in 1..MaxChunkSize
    /\ fn_op = "none"
    /\ fn_out = FnOut0
    /\ JobIdle

FnValidate ==
    /\ fn_op = "none"
    /\ fn_op' = "validate"
    /\ LET v == validate_srt(fn_in)
       IN  fn_out' = [FnOut0 EXCEPT !.op = "validate", !.valid = v.valid, !.errors = v.errors]
    /\ UNCHANGED <<wf_vars, job_vars, fn_in, fn_k>>

FnSplit ==
    /\ fn_op = "none"
    /\ fn_op' = "split"
    /\ LET r == split_srt(fn_in, fn_k)
       IN  fn_out' = [FnOut0 EXCEPT !.op = "split", !.raised = r.raised, !.chunks = r.chunks,
                                    !.total_subtitles = r.total_subtitles]
    /\ UNCHANGED <<wf_vars, job_vars, fn_in, fn_k>>

FnTranslate ==
    /\ fn_op = "none"
    /\ fn_op' = "translate"
    /\ \E provider \in {"stub", "identity", "raise", "raise_later"}, engine \in Engines :
          LET r == translate_chunk(fn_in, provider, engine)
          IN  fn_out' = [FnOut0 EXCEPT !.op = "translate", !.raised = r.raised,
                                       !.content = r.translated_content, !.calls = r.calls,
                                       !.engine_arg = engine,
                                       !.engine = IF r.raised THEN "" ELSE r.engine,
                                       !.warned = r.warned]
    /\ UNCHANGED <<wf_vars, job_vars, fn_in, fn_k>>

\* translate_chunk with a glossary and the repository's placeholder providers.
FnTranslateGlossary ==
    /\ fn_op = "none"
    /\ fn_op' = "translate_glossary"
    /\ \E glossary \in Glossaries, engine \in {"deepseek", "mistral"} :
          LET r == translate_chunk_glossary(fn_in, glossary, "stub", engine)
          IN  fn_out' = [FnOut0 EXCEPT !.op = "translate_glossary",
                                       !.content = r.translated_content, !.calls = r.calls,
                                       !.engine_arg = engine, !.engine = r.engine,
                                       !.glossary = glossary,
                                       !.glossary_matches = r.glossary_matches,
                                       !.blocks = r.blocks]
    /\ UNCHANGED <<wf_vars, job_vars, fn_in, fn_k>>

FnReassemble ==
    /\ fn_op = "none"
    /\ fn_op' = "reassemble"
    /\ \E normalize_ids \in BOOLEAN :
          LET r == reassemble_srt(<< [id |-> 1, translated_content |-> fn_in] >>, normalize_ids)
          IN  fn_out' = [FnOut0 EXCEPT !.op = "reassemble", !.content = r.content,
                                       !.subtitle_count = r.subtitle_count]
    /\ UNCHANGED <<wf_vars, job_vars, fn_in, fn_k>>

\* The lists of translated chunks a caller passes to reassemble_srt: the pieces
\* of a document cut at empty lines, under their chunk ids 1, 2, ..., some of
\* them left out (their translation failed), in any order of arrival.
Orders(S) ==
    { o \in [1..Cardinality(S) -> S] : \A i, j \in 1..Cardinality(S) : o[i] = o[j] => i = j }

ChunkLists(lines) ==
    UNION { UNION { { [i \in 1..Len(o) |-> [id |-> o[i], translated_content |-> pieces[o[i]]]] :
                        o \in Orders(S) } :
                    S \in SUBSET (1..Len(pieces)) } :
            pieces \in Cuts(lines) }

\* reassemble_srt applied to a list of chunks; fn_out.chunks keeps the list passed.
\* The chunks have their records separated by empty lines, as translate_chunk
\* joins them.
FnReassembleChunks ==
    /\ fn_op = "none"
    /\ fn_in \in Docs
    /\ fn_op' = "reassemble_chunks"
    /\ \E cs \in ChunkLists(fn_in), normalize_ids \in BOOLEAN :
          LET r == reassemble_srt(cs, normalize_ids)
          IN  fn_out' = [FnOut0 EXCEPT !.op = "reassemble_chunks", !.chunks = cs,
                                       !.normalize_ids = normalize_ids,
                                       !.content = r.content,
                                       !.subtitle_count = r.subtitle_count]
    /\ UNCHANGED <<wf_vars, job_vars, fn_in, fn_k>>

\* save_srt_file(fn_in, task_id) step by step.  fn_out.prev is what the final
\* path held before the call, fn_out.fs the two files now.
FnSaveOpen ==
    /\ fn_op = "none"
    /\ \E prev \in {NoFile, OldFile}, ok \in BOOLEAN :
          LET fs == [tmp |-> NoFile, final |-> prev]
              to == IF ok THEN "save_opened" ELSE "save_except"
          IN  /\ fn_op' = to
              /\ fn_out' = [FnOut0 EXCEPT !.op = to, !.prev = prev,
                                          !.fs = IF ok THEN OpenTmp(fs) ELSE fs]
    /\ UNCHANGED <<wf_vars, job_vars, fn_in, fn_k>>

\* The write and the close: all of the content, or some of it and an exception.
FnSaveWrite ==
    /\ fn_op = "save_opened"
    /\ \E n \in 0..Len(fn_in), ok \in BOOLEAN :
          LET to == IF ok /\ n = Len(fn_in) THEN "save_written" ELSE "save_except"
          IN  /\ fn_op' = to
              /\ fn_out' = [fn_out EXCEPT !.op = to, !.fs = WriteTmp(@, fn_in, n)]
    /\ UNCHANGED <<wf_vars, job_vars, fn_in, fn_k>>

\* The rename, or its failure.
FnSaveRename ==
    /\ fn_op = "save_written"
    /\ \E ok \in BOOLEAN :
          LET to == IF ok THEN "save" ELSE "save_except"
          IN  /\ fn_op' = to
              /\ fn_out' = [fn_out EXCEPT !.op = to,
                                          !.fs = IF ok THEN RenameTmp(@) ELSE @]
    /\ UNCHANGED <<wf_vars, job_vars, fn_in, fn_k>>

\* The except branch: remove the temporary file and raise again.
FnSaveExcept ==
    /\ fn_op = "save_except"
    /\ fn_op' = "save"
    /\ fn_out' = [fn_out EXCEPT !.op = "save", !.raised = TRUE, !.fs = RemoveTmp(@)]
    /\ UNCHANGED <<wf_vars, job_vars, fn_in, fn_k>>

\* reassemble(translate(split(D, k))) with the identity provider and normalize_ids=false.
RoundTrip(doc, k) ==
    LET s == split_srt(doc, k)
    IN  IF s.raised THEN [raised |-> TRUE, content |-> <<>>, subtitle_count |-> 0]
        ELSE LET tr == [i \in 1..Len(s.chunks) |->
                          [id |-> s.chunks[i].id,
                           translated_content |->
                               translate_chunk(s.chunks[i].content, "identity",
                                               AGNO_DEFAULT_ENGINE).translated_content]]
                 r  == reassemble_srt(tr, FALSE)
             IN  [raised |-> FALSE, content |-> r.content,
                  subtitle_count |-> r.subtitle_count]

FnRoundTrip ==
    /\ fn_op = "none"
    /\ fn_op' = "roundtrip"
    /\ LET r == RoundTrip(fn_in, fn_k)
       IN  fn_out' = [FnOut0 EXCEPT !.op = "roundtrip", !.raised = r.raised,
                                    !.content = r.content,
                                    !.subtitle_count = r.subtitle_count]
    /\ UNCHANGED <<wf_vars, job_vars, fn_in, fn_k>>

\* The number of blocks translate_chunk parses from the chunks.
RECURSIVE ParsedBlocks(_)
ParsedBlocks(cs) ==
    IF cs = <<>> THEN 0 ELSE Len(TrParse(Head(cs).content)) + ParsedBlocks(Tail(cs))

\* The four stages' segmentations of one document: the validator's walk, the
\* splitter's total_subtitles, the translator's parse of the chunks and the
\* reassembler's subtitle_count for them.  When split_srt raises there are no
\* chunks and the document is given to the later stages as one chunk.
FnSegment ==
    /\ fn_op = "none"
    /\ fn_op' = "segment"
    /\ LET v  == validate_srt(fn_in)
           s  == split_srt(fn_in, fn_k)
           cs == IF s.raised THEN << [id |-> 1, content |-> fn_in] >> ELSE s.chunks
           r  == reassemble_srt([i \in 1..Len(cs) |->
                                    [id |-> cs[i].id, translated_content |-> cs[i].content]],
                                FALSE)
       IN  fn_out' = [FnOut0 EXCEPT !.op = "segment", !.valid = v.valid,
                                    !.raised = s.raised,
                                    !.walked = Len(WalkedRecords(fn_in)),
                                    !.total_subtitles = s.total_subtitles,
                                    !.parsed = ParsedBlocks(cs),
                                    !.subtitle_count = r.subtitle_count]
    /\ UNCHANGED <<wf_vars, job_vars, fn_in, fn_k>>

FnNext ==
    \/ FnSegment
    \/ FnValidate
    \/ FnSplit
    \/ FnTranslate
    \/ FnTranslateGlossary
    \/ FnReassemble
    \/ FnReassembleChunks
    \/ FnRoundTrip
    \/ FnSaveOpen
    \/ FnSaveWrite
    \/ FnSaveRename
    \/ FnSaveExcept

SpecFn == FnInit /\ [][FnNext]_vars

\* ---- The stored job: background processing and the cancel endpoint ----

\* The two functions that run the workflow for a stored job.
Runners == {"process_translation_job", "process_translation"}

\* file_content of process_translation_job.
ExampleContent == << "Example SRT content" >>

\* TranslationService.update_status: the status is assigned; download_url and
\* error_message only when they are given.
update_status(j, status, download_url, error_message) ==
    [status |-> status,
     download_url |-> IF download_url # "" THEN download_url ELSE j.download_url,
     error_message |-> IF error_message # <<>> THEN error_message ELSE j.error_message]

\* A job was created (PENDING) and its background function is scheduled.
\* process_translation_job runs the workflow on its own file_content,
\* process_translation on the uploaded document.
JobInit ==
    /\ runner \in Runners
    /\ content \in (IF runner = "process_translation_job" THEN {ExampleContent} ELSE Docs)
    /\ chunk_size \in 1..MaxChunkSize
    /\ harness \in Harnesses
    /\ pc = "validate"
    /\ chunks = <<>>
    /\ translation_results = <<>>
    /\ translated_chunks = <<>>
    /\ reassembly_result = NoReassembly
    /\ save_result = NoSave
    /\ url_result = NoUrl
    /\ files = [tmp |-> NoFile, final |-> NoFile]
    /\ notifications = <<>>
    /\ result = NoResult
    /\ trace = <<>>
    /\ provider_calls = 0
    /\ FnIdle
    /\ job = NewJob
    /\ job_pc = "created"
    /\ cancel_pc = "idle"

\* The background function stores PROCESSING before it calls the workflow.
JobStart ==
    /\ job_pc = "created"
    /\ job' = update_status(job, "processing", "", <<>>)
    /\ job_pc' = "running"
    /\ UNCHANGED <<wf_vars, fn_vars, runner, cancel_pc>>

\* await translation_workflow.process(...): the steps of the run.
JobWorkflow ==
    /\ job_pc = "running"
    /\ Next

\* os.makedirs raises in process_translation_job: the except branch stores FAILED.
JobMakedirsFails ==
    /\ job_pc = "running"
    /\ runner = "process_translation_job"
    /\ pc = "validate"
    /\ job' = update_status(job, "failed", "", <<"makedirs failed">>)
    /\ job_pc' = "done"
    /\ UNCHANGED <<wf_vars, fn_vars, runner, cancel_pc>>

\* The workflow returned: process_translation_job stores COMPLETED,
\* process_translation stores COMPLETED or FAILED by the result's status.
JobStore ==
    /\ job_pc = "running"
    /\ pc = "done"
    /\ job' = IF runner = "process_translation_job" \/ result.status = "completed"
              THEN update_status(job, "completed", result.download_url, <<>>)
              ELSE update_status(job, "failed", "", result.error)
    /\ job_pc' = "done"
    /\ UNCHANGED <<wf_vars, fn_vars, runner, cancel_pc>>

\* cancel_translation_job reads the job and checks that it is pending or processing.
cancel_translation_job_check ==
    /\ cancel_pc = "idle"
    /\ cancel_pc' = IF job.status \in {"pending", "processing"} THEN "checked" ELSE "refused"
    /\ UNCHANGED <<wf_vars, fn_vars, job, runner, job_pc>>

\* cancel_translation_job stores FAILED, "Cancelled by user".
cancel_translation_job_update ==
    /\ cancel_pc = "checked"
    /\ job' = update_status(job, "failed", "", <<"Cancelled by user">>)
    /\ cancel_pc' = "done"
    /\ UNCHANGED <<wf_vars, fn_vars, runner, job_pc>>

JobNext ==
    \/ JobStart
    \/ JobWorkflow
    \/ JobMakedirsFails
    \/ JobStore
    \/ cancel_translation_job_check
    \/ cancel_translation_job_update

SpecJob == JobInit /\ [][JobNext]_vars

\* ------------------------------------------------------------------------
\* Properties.

Range(seq) == { seq[i] : i \in 1..Len(seq) }

IsTerminal(n) == n.status \in {"failed", "completed"}
TerminalNotifications == SelectSeq(notifications, IsTerminal)

StageOrder == <<"validate", "split", "translate", "reassemble", "save", "url", "complete">>

\* The chunks whose translate task returned an error / a translation.
FailedChunks ==
    { i \in 1..Len(translation_results) :
        translation_results[i] # Pending /\ translation_results[i].error # <<>> }
SucceededChunks ==
    { i \in 1..Len(translation_results) : translation_results[i].error = <<>> }
Gathered == pc \notin {"validate", "split", "translate", "translating", "idle"}

\* C1: while process runs no terminal notification has been sent; when it has
\* returned exactly one has been sent, and its status is the returned status.
Thm_C1 ==
    /\ pc # "done" => Len(TerminalNotifications) = 0
    /\ pc = "done" =>
          /\ Len(TerminalNotifications) = 1
          /\ result.status \in {"failed", "completed"}
          /\ TerminalNotifications[1].status = result.status

Wit_C1 ==
    /\ pc = "done"
    /\ result.status = "completed"
    /\ FailedChunks # {}
    /\ Len(notifications) = 2

\* C2: the stages entered are a prefix of validate, split, translate,
\* reassemble, save, url, complete; a stage is entered only when the stage
\* before it succeeded; a failed run has stopped, and a run that failed in a
\* stage has done none of the later stages' work.
Thm_C2 ==
    /\ Len(trace) <= Len(StageOrder)
    /\ \A i \in 1..Len(trace) : trace[i] = StageOrder[i]
    /\ Len(trace) >= 2 => validate_srt(content).valid
    /\ Len(trace) >= 3 =>
          ~(harness = "real" /\ SRTSplitterAgent_split(content, chunk_size).error # <<>>)
    /\ Len(trace) >= 4 =>
          /\ \A i \in 1..Len(translation_results) : translation_results[i] # Pending
          /\ translated_chunks # <<>>
    /\ Len(trace) >= 5 => reassembly_result.error = <<>>
    /\ Len(trace) >= 6 => save_result.error = <<>> /\ save_result.file_path # ""
    /\ Len(trace) >= 7 => url_result.error = <<>> /\ url_result.download_url # ""
    /\ result.status = "failed" => pc = "done"
    /\ ~validate_srt(content).valid =>
          /\ Len(trace) <= 1
          /\ chunks = <<>> /\ translation_results = <<>> /\ provider_calls = 0
          /\ reassembly_result = NoReassembly
          /\ ~files.tmp.exists /\ ~files.final.exists
    /\ Len(trace) < 3 => provider_calls = 0 /\ translation_results = <<>>
    /\ Len(trace) < 4 => reassembly_result = NoReassembly
    /\ Len(trace) < 5 => ~files.tmp.exists /\ ~files.final.exists /\ save_result = NoSave

Wit_C2 ==
    /\ pc = "done"
    /\ result.status = "failed"
    /\ result.details.kind = "validation"
    /\ Len(content) > 0

\* C5: when every chunk's translation has failed, no file exists, the run is
\* still translating or has returned, and it returns failed with the
\* all-chunks-failed error.
AllChunksFailed ==
    /\ Len(translation_results) > 0
    /\ FailedChunks = 1..Len(translation_results)

Thm_C5 ==
    AllChunksFailed =>
        /\ ~files.tmp.exists /\ ~files.final.exists
        /\ pc \in {"translating", "done"}
        /\ pc = "done" =>
              /\ result.status = "failed"
              /\ "all chunks failed" \in Range(result.error)
              /\ result.details.kind = "translation"
              /\ trace = <<"validate", "split", "translate">>

Wit_C5 ==
    /\ pc = "done"
    /\ AllChunksFailed
    /\ Len(chunks) >= 2

\* The number of records validate_srt walks in the chunks of the set S.
RECURSIVE RecordsIn(_, _)
RecordsIn(S, i) ==
    IF i > Len(chunks) THEN 0
    ELSE (IF i \in S THEN Len(WalkedRecords(chunks[i].content)) ELSE 0) + RecordsIn(S, i + 1)

\* C3: when some chunks translated and others failed, the reassembler is given
\* exactly the translated ones, the translating stage does not fail the run,
\* and a completed run reports the record count of the translated chunks.
Claim_C3 ==
    (Gathered /\ FailedChunks # {} /\ SucceededChunks # {}) =>
        /\ { c.id : c \in Range(translated_chunks) } = { chunks[i].id : i \in SucceededChunks }
        /\ (pc = "done" /\ result.status = "failed") => result.details.kind \in {"save", "url"}
        /\ (pc = "done" /\ result.status = "completed") =>
              result.subtitle_count = RecordsIn(SucceededChunks, 1)

\* C4: a completed run with failed chunks returns those failures in its result.
Claim_C4 ==
    (pc = "done" /\ result.status = "completed" /\ FailedChunks # {}) =>
        /\ result.details.kind = "translation"
        /\ \A i \in FailedChunks : result.details.translation[i] = translation_results[i]

\* C6: the result of a run on an invalid document is failed and its error
\* holds the description of the validator's first error.
Claim_C6 ==
    (pc = "done" /\ ~validate_srt(content).valid) =>
        /\ result.status = "failed"
        /\ validate_srt(content).errors[1].error \in Range(result.error)

\* C7: when a run completed with every chunk translated, the document it
\* produced has as many records as the input, and each record's ID line and
\* timing line are the input record's.
Claim_C7 ==
    (pc = "done" /\ result.status = "completed" /\ FailedChunks = {}) =>
        LET in  == WalkedRecords(content)
            out == WalkedRecords(reassembly_result.content)
        IN  /\ Len(out) = Len(in)
            /\ \A i \in 1..Len(in) :
                  /\ Len(out[i]) >= 2
                  /\ out[i][1] = in[i][1]
                  /\ out[i][2] = in[i][2]

\* C8: for a valid document the round trip split, identity translation,
\* reassembly without renumbering returns the document's records.
Claim_C8 ==
    (fn_op = "roundtrip" /\ validate_srt(fn_in).valid) =>
        /\ ~fn_out.raised
        /\ WalkedRecords(fn_out.content) = WalkedRecords(fn_in)

\* The records of the chunks of a split result, chunk after chunk.
RECURSIVE ChunkRecords(_)
ChunkRecords(cs) ==
    IF cs = <<>> THEN <<>> ELSE WalkedRecords(Head(cs).content) \o ChunkRecords(Tail(cs))

\* C9: split_srt returns ceil(n/k) chunks with ids 1, 2, ...; chunk c holds
\* records (c-1)k+1 .. min(ck, n), its range is the IDs of its first and last
\* record, and total_subtitles is n (so an empty document gives no chunks).
Claim_C9 ==
    (fn_op = "split" /\ (fn_in = <<>> \/ validate_srt(fn_in).valid)) =>
        LET recs == WalkedRecords(fn_in)
            n    == Len(recs)
        IN  /\ ~fn_out.raised
            /\ fn_out.total_subtitles = n
            /\ Len(fn_out.chunks) = (n + fn_k - 1) \div fn_k
            /\ \A c \in 1..Len(fn_out.chunks) :
                  LET first == (c - 1) * fn_k + 1
                      last  == IF c * fn_k < n THEN c * fn_k ELSE n
                  IN  /\ fn_out.chunks[c].id = c
                      /\ WalkedRecords(fn_out.chunks[c].content) = SubSeq(recs, first, last)
                      /\ fn_out.chunks[c].subtitle_range.start = IntOf(Strip(recs[first][1]))
                      /\ fn_out.chunks[c].subtitle_range.end = IntOf(Strip(recs[last][1]))

\* C10: the chunks of a valid document hold each of its records whole, once,
\* and in order.
Claim_C10 ==
    (fn_op = "split" /\ validate_srt(fn_in).valid) =>
        /\ ~fn_out.raised
        /\ ChunkRecords(fn_out.chunks) = WalkedRecords(fn_in)

\* The integer-only lines of a document.
IdLinePositions(lines) == { p \in 1..Len(lines) : IsInt(Strip(lines[p])) }

\* C11: for a document whose records are not separated by empty lines,
\* split_srt returns, total_subtitles is the number of integer-only lines, and
\* no chunk holds more than chunk_size of them.
Claim_C11 ==
    (fn_op = "split" /\ fn_in \in IrregularDocs) =>
        /\ ~fn_out.raised
        /\ fn_out.total_subtitles = Cardinality(IdLinePositions(fn_in))
        /\ fn_out.chunks # <<>>
        /\ \A c \in 1..Len(fn_out.chunks) :
              Cardinality(IdLinePositions(fn_out.chunks[c].content)) \in 1..fn_k

\* The chunks of a list in ascending id order (ids are distinct).
RECURSIVE InIdOrder(_)
InIdOrder(cs) ==
    IF cs = <<>> THEN <<>>
    ELSE LET m == CHOOSE c \in Range(cs) : \A d \in Range(cs) : c.id <= d.id
         IN  <<m>> \o InIdOrder(SelectSeq(cs, LAMBDA c : c.id # m.id))

\* C12: whatever order the chunks are passed in, reassemble_srt returns what it
\* returns for the same chunks passed in ascending id order.
Thm_C12 ==
    fn_op = "reassemble_chunks" =>
        LET r == reassemble_srt(InIdOrder(fn_out.chunks), fn_out.normalize_ids)
        IN  /\ fn_out.content = r.content
            /\ fn_out.subtitle_count = r.subtitle_count

Wit_C12 ==
    /\ fn_op = "reassemble_chunks"
    /\ Len(fn_out.chunks) = 2
    /\ fn_out.chunks[1].id > fn_out.chunks[2].id
    /\ fn_out.chunks[1].translated_content # fn_out.chunks[2].translated_content
    /\ fn_out.subtitle_count >= 2

\* The records validate_srt walks in the chunks of a list, in ascending id order.
RECURSIVE SuppliedRecords(_)
SuppliedRecords(cs) ==
    IF cs = <<>> THEN <<>>
    ELSE WalkedRecords(Head(cs).translated_content) \o SuppliedRecords(Tail(cs))

\* C13: with normalize_ids the ID lines of the output's records are 1, 2, ..., N
\* for the N records supplied; without it they are the supplied records' IDs.
Claim_C13 ==
    fn_op = "reassemble_chunks" =>
        LET in  == SuppliedRecords(InIdOrder(fn_out.chunks))
            out == WalkedRecords(fn_out.content)
        IN  /\ Len(out) = Len(in)
            /\ \A i \in 1..Len(in) :
                  out[i][1] = IF fn_out.normalize_ids THEN ToString(i) ELSE Strip(in[i][1])

\* C14: subtitle_count is the number of records in the supplied chunks and the
\* number of records in the returned content; no chunks give "" and 0.
Claim_C14 ==
    fn_op = "reassemble_chunks" =>
        /\ fn_out.subtitle_count = Len(SuppliedRecords(fn_out.chunks))
        /\ fn_out.subtitle_count = Len(WalkedRecords(fn_out.content))
        /\ fn_out.chunks = <<>> => (fn_out.content = <<>> /\ fn_out.subtitle_count = 0)

SaveOps == {"save_opened", "save_written", "save_except", "save"}

\* C15: from the opening of the temporary file to the return or the raise of
\* save_srt_file, the final path holds what it held before the call or the
\* whole new content, never part of a content.
Thm_C15 ==
    fn_op \in SaveOps =>
        \/ fn_out.fs.final = fn_out.prev
        \/ fn_out.fs.final = [exists |-> TRUE, data |-> fn_in, complete |-> TRUE]

Wit_C15 ==
    /\ fn_op = "save_except"
    /\ fn_out.prev = OldFile
    /\ fn_out.fs.tmp.exists
    /\ ~fn_out.fs.tmp.complete
    /\ fn_out.fs.tmp.data # <<>>

\* C16: when save_srt_file failed, the temporary file does not exist once the
\* error has reached SRTReassemblerAgent.save_file, and process has returned
\* failed in the saving stage after its failed notification.
Thm_C16 ==
    save_result.error # <<>> =>
        /\ ~files.tmp.exists
        /\ pc = "done"
        /\ result.status = "failed"
        /\ result.details.kind = "save"
        /\ notifications[Len(notifications)].status = "failed"
        /\ trace[Len(trace)] = "save"

Wit_C16 ==
    /\ pc = "done"
    /\ save_result.error = <<"save error: ", "write_fails">>
    /\ reassembly_result.subtitle_count >= 2

\* C17: translate_chunk called with an engine key that is not a known engine
\* translates with the DeepSeek placeholder, logs a warning when it does, and
\* reports "deepseek" as the engine of its result.
Claim_C17 ==
    (fn_op = "translate" /\ fn_out.engine_arg \notin {"deepseek", "mistral"} /\ ~fn_out.raised) =>
        /\ fn_out.content = translate_chunk(fn_in, "stub", "deepseek").translated_content
              \/ fn_out.content = translate_chunk(fn_in, "identity", "deepseek").translated_content
        /\ fn_out.calls > 0 => fn_out.warned
        /\ fn_out.engine = "deepseek"

\* The number of occurrences of t in s, compared without case, from the left
\* and not overlapping; CountInLines sums it over the lines of a text.
RECURSIVE CountI(_, _)
CountI(t, s) ==
    IF Len(s) < Len(t) THEN 0
    ELSE IF Lower(SubSeq(s, 1, Len(t))) = Lower(t)
    THEN 1 + CountI(t, SubSeq(s, Len(t) + 1, Len(s)))
    ELSE CountI(t, SubSeq(s, 2, Len(s)))

RECURSIVE CountInLines(_, _)
CountInLines(t, lines) ==
    IF lines = <<>> THEN 0 ELSE CountI(t, Head(lines)) + CountInLines(t, Tail(lines))

\* The stripped text lines of a record (its lines after the ID and the timing line).
TextOf(rec) == [p \in 1..(Len(rec) - 2) |-> Strip(rec[p + 2])]

\* C18: for every record and every glossary item, if the term is in the
\* record's text then one match for the record and the item is recorded and the
\* translated text holds the translation once for each occurrence of the term;
\* if it is not, no match is recorded, and a record holding no term at all is
\* translated as without a glossary.  Stated for documents whose records have
\* different IDs and that translate_chunk divides as validate_srt does.
Claim_C18 ==
    LET recs == WalkedRecords(fn_in)
    IN  (/\ fn_op = "translate_glossary"
         /\ Len(fn_out.blocks) = Len(recs)
         /\ \A i, j \in 1..Len(recs) : recs[i][1] = recs[j][1] => i = j) =>
        \A i \in 1..Len(recs) :
            LET text == TextOf(recs[i])
                out  == SubSeq(fn_out.blocks[i], 3, Len(fn_out.blocks[i]))
                plain == translate_chunk(fn_in, "stub", fn_out.engine_arg).blocks[i]
            IN  /\ \A k \in 1..Len(fn_out.glossary) :
                      LET g == fn_out.glossary[k]
                          n == Cardinality({ m \in 1..Len(fn_out.glossary_matches) :
                                   fn_out.glossary_matches[m] =
                                       [subtitle_id |-> Strip(recs[i][1]), term |-> g.term,
                                        translation |-> g.translation] })
                      IN  IF InText(g.term, text)
                          THEN /\ n = 1
                               /\ CountInLines(g.translation, out) >= CountInLines(g.term, text)
                          ELSE n = 0
                /\ (\A k \in 1..Len(fn_out.glossary) : ~InText(fn_out.glossary[k].term, text))
                      => fn_out.blocks[i] = plain

\* C19: validate_srt on an empty or white-space-only document returns
\* valid = false and exactly one error, whose line is 0.
Thm_C19 ==
    (fn_op = "validate" /\ fn_in \in BlankDocs) =>
        /\ ~fn_out.valid
        /\ Len(fn_out.errors) = 1
        /\ fn_out.errors[1].line = 0

Wit_C19 ==
    /\ fn_op = "validate"
    /\ fn_in = <<"", " ", "">>
    /\ fn_out.errors # <<>>

\* C20: a run that was cancelled before or during the translation fan-out has
\* returned failed with an error that says "cancelled", after exactly one
\* terminal notification, a failed one.
Claim_C20 ==
    (/\ pc \in {"done", "cancelled"}
     /\ \E i \in 1..Len(trace) : trace[i] \in {"cancel", "cancel_requested"}) =>
        /\ pc = "done"
        /\ result.status = "failed"
        /\ "cancelled" \in Range(result.error)
        /\ Len(TerminalNotifications) = 1
        /\ TerminalNotifications[1].status = "failed"

\* The translate tasks asyncio.gather has issued and that have not finished.
InFlight == { i \in 1..Len(translation_results) : translation_results[i] = Pending }

\* The cap a configuration would put on the tasks in flight (Settings has none).
MaxConcurrency == 1

\* C21: during the translation stage no more than the configured maximum of
\* chunk translations is in flight, however many chunks there are.
Claim_C21 ==
    pc = "translating" => Cardinality(InFlight) <= MaxConcurrency

\* The step in which a chunk's task ends in a failure leaves the run in the
\* translation stage and every sibling's task as it was.
ChunkFailureStep ==
    \A i \in InFlight :
        (translation_results'[i] # Pending /\ translation_results'[i].error # <<>>) =>
            /\ pc' = "translating"
            /\ result' = NoResult
            /\ \A j \in 1..Len(translation_results) :
                  j # i => translation_results'[j] = translation_results[j]
\* Past the gather every task has finished and the reassembler's input is the
\* successful results under their chunks' ids.
GatheredAll ==
       (pc \in {"reassemble", "save", "url", "complete"} \/ (pc = "done" /\ FailedChunks # {})) =>
          /\ InFlight = {}
          /\ Len(translated_chunks) = Cardinality(SucceededChunks)
          /\ \A i \in SucceededChunks :
                \E c \in Range(translated_chunks) :
                    /\ c.id = chunks[i].id
                    /\ c.translated_content = translation_results[i].translated_content

\* C22: a chunk's failure aborts no sibling: the siblings' tasks stay as they
\* were and the run stays in the translation stage; reassembly is entered only
\* when every task has finished, with every successful sibling in its input.
Thm_C22 == [][ChunkFailureStep]_vars /\ []GatheredAll

Wit_C22 ==
    /\ pc = "reassemble"
    /\ Len(chunks) = 2
    /\ translation_results[1].error # <<>>
    /\ translation_results[2].error = <<>>
    /\ translated_chunks # <<>>

\* The records of a walked document that have a timing line and a text line.
Translatable(recs) ==
    { i \in 1..Len(recs) : Len(recs[i]) >= 3 /\ MatchesTime(Strip(recs[i][2])) }

\* C23: translate_chunk calls the provider once for each record with a timing
\* line and a text line and for no other record; a record it does not send is
\* in the output as it was and where it was.
Claim_C23 ==
    (fn_op = "translate" /\ fn_in \in Docs /\ ~fn_out.raised) =>
        LET in  == WalkedRecords(fn_in)
            out == WalkedRecords(fn_out.content)
        IN  /\ fn_out.calls = Cardinality(Translatable(in))
            /\ Len(out) = Len(in)
            /\ \A i \in (1..Len(in)) \ Translatable(in) : out[i] = in[i]

\* The translation of a whole chunk by the placeholder provider.
WholeChunk(i) ==
    translate_chunk(chunks[i].content, "stub", AGNO_DEFAULT_ENGINE).translated_content

\* C24: a chunk's result is either an error result with empty content or the
\* translation of the whole chunk; the reassembler's input holds whole chunks
\* of error-free results only.
Thm_C24 ==
    /\ \A i \in 1..Len(translation_results) :
          LET r == translation_results[i]
          IN  r # Pending =>
                /\ r.error # <<>> => r.translated_content = <<>>
                /\ r.error = <<>> => r.translated_content = WholeChunk(i)
    /\ \A c \in Range(translated_chunks) :
          \E i \in 1..Len(chunks) :
              /\ c.id = chunks[i].id
              /\ translation_results[i].error = <<>>
              /\ c.translated_content = WholeChunk(i)

Wit_C24 ==
    /\ pc = "done"
    /\ Len(translation_results) = 1
    /\ translation_results[1].calls = 2
    /\ translation_results[1].error # <<>>
    /\ translation_results[1].translated_content = <<>>
    /\ translated_chunks = <<>>
    /\ reassembly_result = NoReassembly

\* The lines at which the validator's walk starts a record that has a next line.
RecordStarts(lines) ==
    { p \in 1..(Len(lines) - 1) :
        /\ IsInt(Strip(lines[p]))
        /\ p = 1 \/ Strip(lines[p - 1]) = "" }

\* C25: validate_srt reports an invalid timing for every record whose line
\* after the ID line is not exactly a timing line, and still checks that
\* record's text.
Claim_C25 ==
    fn_op = "validate" =>
        \A p \in RecordStarts(fn_in) :
            fn_in[p + 1] # T1 =>
                /\ \E e \in Range(fn_out.errors) : e.line = p + 1 /\ e.error = "invalid_timing"
                /\ (p + 2 > Len(fn_in) \/ Strip(fn_in[p + 2]) = "") =>
                      \E e \in Range(fn_out.errors) :
                          e.line >= p + 1 /\ e.error \in {"missing_text", "empty_text"}

\* C26: on a document the validator accepts the splitter agent returns no
\* error and at least one chunk, so the run does not fail in the splitting
\* stage nor report that all chunks failed for want of chunks.
Claim_C26 ==
    (harness = "real" /\ chunk_size >= 1 /\ validate_srt(content).valid /\ Len(trace) >= 2) =>
        LET r == SRTSplitterAgent_split(content, chunk_size)
        IN  /\ r.error = <<>>
            /\ Len(r.chunks) >= 1
            /\ ~(pc = "done" /\ result.details.kind = "splitting")
            /\ ~(pc = "done" /\ chunks = <<>> /\ result.error = <<"all chunks failed">>)

\* The lines of a text that are not empty, stripped, each marked as a record's
\* leading ID line (a number at the start of the text or after an empty line) or not.
RECURSIVE Marked(_, _)
Marked(lines, p) ==
    IF p > Len(lines) THEN <<>>
    ELSE IF Strip(lines[p]) = "" THEN Marked(lines, p + 1)
    ELSE << [line |-> Strip(lines[p]),
             lead |-> IsInt(Strip(lines[p])) /\ (p = 1 \/ Strip(lines[p - 1]) = "")] >>
         \o Marked(lines, p + 1)

RECURSIVE SuppliedLines(_)
SuppliedLines(cs) ==
    IF cs = <<>> THEN <<>>
    ELSE Marked(Head(cs).translated_content, 1) \o SuppliedLines(Tail(cs))

\* C27: with normalize_ids the output of reassemble_srt has the supplied
\* chunks' lines in their order, and only leading ID lines differ.
Claim_C27 ==
    (fn_op = "reassemble_chunks" /\ fn_out.normalize_ids) =>
        LET in  == SuppliedLines(InIdOrder(fn_out.chunks))
            out == Marked(fn_out.content, 1)
        IN  /\ Len(out) = Len(in)
            /\ \A p \in 1..Len(in) : ~in[p].lead => out[p].line = in[p].line

\* C28: for a document the validator accepts, the records the validator
\* walked, the splitter's total_subtitles, the blocks the translator parses
\* and the reassembler's subtitle_count are the same number.
Claim_C28 ==
    (fn_op = "segment" /\ fn_out.valid) =>
        /\ ~fn_out.raised
        /\ fn_out.total_subtitles = fn_out.walked
        /\ fn_out.parsed = fn_out.walked
        /\ fn_out.subtitle_count = fn_out.walked

\* The moves of a job's stored status: PENDING to PROCESSING or (cancelled)
\* FAILED, PROCESSING to COMPLETED or FAILED, and none from COMPLETED or FAILED.
StatusMoves ==
    { <<"pending", "processing">>, <<"pending", "failed">>,
      <<"processing", "completed">>, <<"processing", "failed">> }

\* C29: a job's stored status changes only along PENDING, PROCESSING,
\* COMPLETED or FAILED, and a COMPLETED or FAILED status (a cancelled job's
\* FAILED included) is never changed again.
Claim_C29 ==
    [][job'.status # job.status => <<job.status, job'.status>> \in StatusMoves]_vars

\* C30: a job is COMPLETED only if its workflow run returned completed, and
\* when the run returned failed the background function has stored the job as
\* FAILED with an error message.
Claim_C30 ==
    /\ job.status = "completed" => result.status = "completed"
    /\ (job_pc = "done" /\ result.status = "failed") =>
          (job.status = "failed" /\ job.error_message # <<>>)

====
